---- MODULE Spec2Model ----
(***************************************************************************)
(* Model of activity-planning-mcp: the validators (src/utils.py), the      *)
(* events pipeline (src/events.py), the places pipeline (src/places.py)    *)
(* and the tool surface (src/server.py).                                   *)
(*                                                                         *)
(* Conventions.                                                            *)
(*   - A Python str is a sequence of characters, each a TLA+ string.       *)
(*   - An Optional value is a sequence of length <= 1: <<>> is None,       *)
(*     <<v>> is the value v.                                               *)
(*   - The outcome of a call is Return(v) or Raise(exc), exc the name of   *)
(*     the Python exception class.                                         *)
(*   - Ratings are counted in tenths (35 is 3.5).                          *)
(*   - One tool invocation is one action: the program is single-flow and   *)
(*     the answers of the providers are inputs of the action; the requests *)
(*     it issued are logged, in order, in calls.                           *)
(***************************************************************************)
EXTENDS Integers, Sequences, FiniteSets, TLC

VARIABLES
    pc,      \* "idle": waiting for a call; "done": a call has returned or raised
    op,      \* the function or tool that ran last
    args,    \* its arguments and the providers' answers it consumed
    ret,     \* its outcome: Return(v) or Raise(exc)
    locals,  \* its working variables, kept across its awaits
    calls,   \* the network requests it issued, in order
    search   \* the EventSearch request object a caller holds (<<>>: none yet)

vars == <<pc, op, args, locals, ret, calls, search>>

None == <<>>
Some(v) == <<v>>

\* no outcome yet: no call was made, or the call is at an await
Pending == [kind |-> "pending"]
Return(v) == [kind |-> "return", v |-> v]
Raise(e) == [kind |-> "raise", exc |-> e]
Returned(r) == r.kind = "return"
Raised(r) == r.kind = "raise"

Min(a, b) == IF a <= b THEN a ELSE b
Max(a, b) == IF a >= b THEN a ELSE b

(***************************************************************************)
(* Strings                                                                 *)
(***************************************************************************)

\* str.strip() removes these from both ends
Whitespace == {" ", "\t", "\n"}

RECURSIVE LStrip(_)
LStrip(s) ==
    IF s # <<>> /\ Head(s) \in Whitespace THEN LStrip(Tail(s)) ELSE s

RECURSIVE RStrip(_)
RStrip(s) ==
    IF s # <<>> /\ s[Len(s)] \in Whitespace
    THEN RStrip(SubSeq(s, 1, Len(s) - 1))
    ELSE s

Strip(s) == RStrip(LStrip(s))

\* n copies of the character c
Fill(c, n) == [i \in 1..n |-> c]

RECURSIVE SeqsUpTo(_, _)
\* every sequence over S of length at most n
SeqsUpTo(S, n) ==
    IF n = 0 THEN {<<>>}
    ELSE LET shorter == SeqsUpTo(S, n - 1)
         IN  shorter \cup {Append(s, c) : s \in shorter, c \in S}

(***************************************************************************)
(* src/utils.py: validators                                                *)
(***************************************************************************)

\* the grave accent, U+0060 (the character cannot be written in a TLA+ string)
Backtick == "U+0060"

get_invalid_chars ==
    << "<", ">", ":", "/", "\\", "|", "?", "*", "{", "}", "(", ")", "[", "]",
       "@", "%", "&", "$", "#", "^", "=", "+", Backtick >>

\* any(char in s for char in invalid_chars)
HasInvalidChar(s) ==
    LET chars == {s[j] : j \in 1..Len(s)}
    IN  \E i \in 1..Len(get_invalid_chars) : get_invalid_chars[i] \in chars

MinLocationLen == 2
MaxLocationLen == 200
MaxKeywordLen == 200

\* validate_location without its upper length limit (line 15 left out)
validate_location_NoLengthCheck(location) ==
    LET loc == Strip(location)
    IN  IF loc = <<>> THEN Raise("ValueError")
        ELSE IF Len(loc) < MinLocationLen THEN Raise("ValueError")
        ELSE IF HasInvalidChar(loc) THEN Raise("ValueError")
        ELSE Return(loc)

validate_location(location) ==
    LET loc == Strip(location)
    IN  IF loc = <<>> THEN Raise("ValueError")
        ELSE IF Len(loc) < MinLocationLen THEN Raise("ValueError")
        ELSE IF Len(loc) > MaxLocationLen THEN Raise("ValueError")
        ELSE IF HasInvalidChar(loc) THEN Raise("ValueError")
        ELSE Return(loc)

validate_keyword(keyword) ==
    LET kw == Strip(keyword)
    IN  IF Len(kw) > MaxKeywordLen THEN Raise("ValueError")
        ELSE IF HasInvalidChar(kw) THEN Raise("ValueError")
        ELSE Return(kw)

(***************************************************************************)
(* src/utils.py: coordinates                                               *)
(***************************************************************************)

DigitChars == <<"0", "1", "2", "3", "4", "5", "6", "7", "8", "9">>
IsDigit(c) == \E i \in 1..10 : DigitChars[i] = c
DigitVal(c) == (CHOOSE i \in 1..10 : DigitChars[i] = c) - 1

RECURSIVE Pow10(_)
Pow10(n) == IF n = 0 THEN 1 ELSE 10 * Pow10(n - 1)

RECURSIVE DigitsToInt(_)
DigitsToInt(s) ==
    IF s = <<>> THEN 0
    ELSE 10 * DigitsToInt(SubSeq(s, 1, Len(s) - 1)) + DigitVal(s[Len(s)])

RECURSIVE NatToStr(_)
NatToStr(n) ==
    IF n < 10 THEN <<DigitChars[n + 1]>>
    ELSE Append(NatToStr(n \div 10), DigitChars[(n % 10) + 1])

\* str(n) for an integer n
IntToStr(n) == IF n < 0 THEN <<"-">> \o NatToStr(-n) ELSE NatToStr(n)

RECURSIVE Split(_, _)
\* str.split(sep) for a one-character separator
Split(s, sep) ==
    IF \A i \in 1..Len(s) : s[i] # sep THEN <<s>>
    ELSE LET k == CHOOSE i \in 1..Len(s) :
                      s[i] = sep /\ \A j \in 1..(i - 1) : s[j] # sep
         IN  <<SubSeq(s, 1, k - 1)>> \o Split(SubSeq(s, k + 1, Len(s)), sep)

\* float(s) for decimal literals: an optional sign, digits, an optional point.
\* None is ValueError; the value is the fraction num/den.
float(s) ==
    LET t == Strip(s)
        signed == t # <<>> /\ t[1] \in {"-", "+"}
        u == IF signed THEN Tail(t) ELSE t
        dots == {i \in 1..Len(u) : u[i] = "."}
        digits == {i \in 1..Len(u) : IsDigit(u[i])}
        dot == IF dots = {} THEN Len(u) + 1 ELSE CHOOSE i \in dots : TRUE
        mant == SubSeq(u, 1, dot - 1) \o SubSeq(u, dot + 1, Len(u))
    IN  IF \/ Cardinality(dots) > 1
           \/ digits = {}
           \/ dots \cup digits # 1..Len(u)
        THEN None
        ELSE Some([num |-> (IF signed /\ t[1] = "-" THEN -1 ELSE 1) * DigitsToInt(mant),
                   den |-> Pow10(IF dots = {} THEN 0 ELSE Len(u) - dot)])

MaxLat == 90
MaxLng == 180

\* is_coordinates without the comparison against the ranges
is_coordinates_NoRangeCheck(location) ==
    LET parts == Split(location, ",")
    IN  IF Len(parts) # 2 THEN FALSE
        ELSE float(parts[1]) # None /\ float(parts[2]) # None

is_coordinates(location) ==
    LET parts == Split(location, ",")
    IN  IF Len(parts) # 2 THEN FALSE
        ELSE LET lat == float(parts[1])
                 lng == float(parts[2])
             IN  IF lat = None \/ lng = None THEN FALSE
                 ELSE /\ -MaxLat * lat[1].den <= lat[1].num
                      /\ lat[1].num <= MaxLat * lat[1].den
                      /\ -MaxLng * lng[1].den <= lng[1].num
                      /\ lng[1].num <= MaxLng * lng[1].den

\* f"{lat},{lon}", for whole-degree coordinates
format_coordinates(lat, lon) == IntToStr(lat) \o <<",">> \o IntToStr(lon)

(***************************************************************************)
(* Calendar dates: datetime.strptime / strftime with "%Y-%m-%d", timedelta *)
(***************************************************************************)

IsLeap(y) == (y % 4 = 0 /\ y % 100 # 0) \/ y % 400 = 0

DaysInMonth(y, m) ==
    IF m = 2 THEN (IF IsLeap(y) THEN 29 ELSE 28)
    ELSE IF m \in {4, 6, 9, 11} THEN 30 ELSE 31

MaxYear == 9999   \* datetime.MAXYEAR

AllDigits(s) == s # <<>> /\ \A i \in 1..Len(s) : IsDigit(s[i])

\* the %d directive also takes a space followed by one digit (" 5")
DayDigits(p) ==
    IF Len(p) = 2 /\ p[1] = " " /\ IsDigit(p[2]) THEN <<p[2]>> ELSE p

\* datetime.strptime(s, "%Y-%m-%d"): None is ValueError.  %Y takes four
\* digits; %m and %d take one or two, so "2027-1-5" parses.
strptime(s) ==
    LET parts == Split(s, "-")
    IN  IF Len(parts) # 3 THEN None
        ELSE IF ~(AllDigits(parts[1]) /\ AllDigits(parts[2])
                    /\ AllDigits(DayDigits(parts[3])))
        THEN None
        ELSE IF Len(parts[1]) # 4 \/ Len(parts[2]) > 2 \/ Len(parts[3]) > 2
        THEN None
        ELSE LET y == DigitsToInt(parts[1])
                 m == DigitsToInt(parts[2])
                 d == DigitsToInt(DayDigits(parts[3]))
             IN  IF y < 1 \/ m < 1 \/ m > 12 \/ d < 1 THEN None
                 ELSE IF d > DaysInMonth(y, m) THEN None
                 ELSE Some([y |-> y, m |-> m, d |-> d])

\* n in decimal, zero-padded to w digits
Pad(n, w) ==
    LET s == NatToStr(n)
    IN  IF Len(s) >= w THEN s ELSE Fill("0", w - Len(s)) \o s

\* date.strftime("%Y-%m-%d")
strftime(date) ==
    Pad(date.y, 4) \o <<"-">> \o Pad(date.m, 2) \o <<"-">> \o Pad(date.d, 2)

\* date + timedelta(days=1): None is OverflowError (past datetime.MAXYEAR)
AddOneDay(date) ==
    IF date.d < DaysInMonth(date.y, date.m)
    THEN Some([date EXCEPT !.d = date.d + 1])
    ELSE IF date.m < 12 THEN Some([y |-> date.y, m |-> date.m + 1, d |-> 1])
    ELSE IF date.y < MaxYear THEN Some([y |-> date.y + 1, m |-> 1, d |-> 1])
    ELSE None

\* comparison of two datetimes, each a date and a time of day
DateLess(a, b) ==
    \/ a.y < b.y
    \/ a.y = b.y /\ a.m < b.m
    \/ a.y = b.y /\ a.m = b.m /\ a.d < b.d

\* (date a at t) <= (date b at u)
DateTimeLeq(a, t, b, u) == DateLess(a, b) \/ (a = b /\ t <= u)

\* validate_start_end_dates: now is datetime.now(), [date, time] with the
\* time of day counted from midnight; sd and ed are at midnight
validate_start_end_dates(start_date, end_date, now) ==
    LET sd == strptime(start_date)
        ed == strptime(end_date)
    IN  IF sd = None \/ ed = None THEN Raise("ValueError")
        ELSE IF DateTimeLeq(ed[1], 0, sd[1], 0) THEN Raise("ValueError")
        ELSE IF DateTimeLeq(sd[1], 0, now.date, now.time) THEN Raise("ValueError")
        ELSE Return(<<start_date, end_date>>)

(***************************************************************************)
(* src/places.py: geocoding                                                *)
(***************************************************************************)

\* what the geocoding endpoint can answer to one GET
GeocodeAnswers ==
    { [kind |-> "ok", lat |-> 34, lng |-> -118],
      [kind |-> "zero_results"],      \* status ZERO_RESULTS
      [kind |-> "status_error"],      \* any other status that is not OK
      [kind |-> "ok_empty"],          \* status OK with no results
      [kind |-> "http_403"],
      [kind |-> "http_error"],        \* any other 4xx/5xx
      [kind |-> "timeout"],
      [kind |-> "network_error"],     \* connection failure
      [kind |-> "bad_json"] }         \* body that does not decode

GeocodeCall(location) == [api |-> "geocode", address |-> location]

geocode_location(location, answer) ==
    CASE answer.kind = "ok" -> Return(<<answer.lat, answer.lng>>)
      [] answer.kind \in {"zero_results", "status_error", "ok_empty"} ->
            Raise("ValueError")
      [] answer.kind = "http_403" -> Raise("ValueError")
      [] answer.kind = "http_error" -> Raise("HTTPError")
      [] answer.kind = "timeout" -> Raise("TimeoutException")
      [] answer.kind = "network_error" -> Raise("ConnectError")
      [] answer.kind = "bad_json" -> Raise("JSONDecodeError")

(***************************************************************************)
(* src/places.py: place types                                              *)
(***************************************************************************)

UpperCase == <<"A", "B", "C", "D", "E", "F", "G", "H", "I", "J", "K", "L", "M", "N", "O", "P", "Q", "R", "S", "T", "U", "V", "W", "X", "Y", "Z">>
LowerCase == <<"a", "b", "c", "d", "e", "f", "g", "h", "i", "j", "k", "l", "m", "n", "o", "p", "q", "r", "s", "t", "u", "v", "w", "x", "y", "z">>

\* str.lower(), on the letters A-Z
LowerChar(c) ==
    IF \E i \in 1..Len(UpperCase) : UpperCase[i] = c
    THEN LowerCase[CHOOSE i \in 1..Len(UpperCase) : UpperCase[i] = c]
    ELSE c

Lower(s) == [i \in 1..Len(s) |-> LowerChar(s[i])]

\* the alias table: << alias, provider category >>
type_mapping ==
    <<
       << <<"r", "e", "s", "t", "a", "u", "r", "a", "n", "t">>,
          <<"r", "e", "s", "t", "a", "u", "r", "a", "n", "t">> >>,
       << <<"r", "e", "s", "t", "a", "u", "r", "a", "n", "t", "s">>,
          <<"r", "e", "s", "t", "a", "u", "r", "a", "n", "t">> >>,
       << <<"c", "a", "f", "e">>,
          <<"c", "a", "f", "e">> >>,
       << <<"c", "o", "f", "f", "e", "e">>,
          <<"c", "a", "f", "e">> >>,
       << <<"b", "a", "r">>,
          <<"b", "a", "r">> >>,
       << <<"p", "u", "b">>,
          <<"b", "a", "r">> >>,
       << <<"p", "a", "r", "k">>,
          <<"p", "a", "r", "k">> >>,
       << <<"p", "a", "r", "k", "s">>,
          <<"p", "a", "r", "k">> >>,
       << <<"h", "i", "k", "i", "n", "g">>,
          <<"p", "a", "r", "k">> >>,
       << <<"h", "i", "k", "i", "n", "g", "_", "a", "r", "e", "a">>,
          <<"p", "a", "r", "k">> >>,
       << <<"t", "r", "a", "i", "l">>,
          <<"p", "a", "r", "k">> >>,
       << <<"m", "u", "s", "e", "u", "m">>,
          <<"m", "u", "s", "e", "u", "m">> >>,
       << <<"m", "u", "s", "e", "u", "m", "s">>,
          <<"m", "u", "s", "e", "u", "m">> >>,
       << <<"a", "r", "t", "_", "g", "a", "l", "l", "e", "r", "y">>,
          <<"a", "r", "t", "_", "g", "a", "l", "l", "e", "r", "y">> >>,
       << <<"g", "a", "l", "l", "e", "r", "y">>,
          <<"a", "r", "t", "_", "g", "a", "l", "l", "e", "r", "y">> >>,
       << <<"s", "h", "o", "p", "p", "i", "n", "g">>,
          <<"s", "h", "o", "p", "p", "i", "n", "g", "_", "m", "a", "l", "l">> >>,
       << <<"m", "a", "l", "l">>,
          <<"s", "h", "o", "p", "p", "i", "n", "g", "_", "m", "a", "l", "l">> >>,
       << <<"s", "t", "o", "r", "e">>,
          <<"s", "t", "o", "r", "e">> >>,
       << <<"t", "o", "u", "r", "i", "s", "t", "_", "a", "t", "t", "r", "a", "c", "t", "i", "o", "n">>,
          <<"t", "o", "u", "r", "i", "s", "t", "_", "a", "t", "t", "r", "a", "c", "t", "i", "o", "n">> >>,
       << <<"a", "t", "t", "r", "a", "c", "t", "i", "o", "n">>,
          <<"t", "o", "u", "r", "i", "s", "t", "_", "a", "t", "t", "r", "a", "c", "t", "i", "o", "n">> >>,
       << <<"n", "i", "g", "h", "t", "_", "c", "l", "u", "b">>,
          <<"n", "i", "g", "h", "t", "_", "c", "l", "u", "b">> >>,
       << <<"c", "l", "u", "b">>,
          <<"n", "i", "g", "h", "t", "_", "c", "l", "u", "b">> >>,
       << <<"g", "y", "m">>,
          <<"g", "y", "m">> >>,
       << <<"f", "i", "t", "n", "e", "s", "s">>,
          <<"g", "y", "m">> >>,
       << <<"s", "p", "a">>,
          <<"s", "p", "a">> >>,
       << <<"m", "o", "v", "i", "e", "_", "t", "h", "e", "a", "t", "e", "r">>,
          <<"m", "o", "v", "i", "e", "_", "t", "h", "e", "a", "t", "e", "r">> >>,
       << <<"c", "i", "n", "e", "m", "a">>,
          <<"m", "o", "v", "i", "e", "_", "t", "h", "e", "a", "t", "e", "r">> >>,
       << <<"z", "o", "o">>,
          <<"z", "o", "o">> >>,
       << <<"a", "q", "u", "a", "r", "i", "u", "m">>,
          <<"a", "q", "u", "a", "r", "i", "u", "m">> >>,
       << <<"a", "m", "u", "s", "e", "m", "e", "n", "t", "_", "p", "a", "r", "k">>,
          <<"a", "m", "u", "s", "e", "m", "e", "n", "t", "_", "p", "a", "r", "k">> >>,
       << <<"s", "t", "a", "d", "i", "u", "m">>,
          <<"s", "t", "a", "d", "i", "u", "m">> >>,
       << <<"l", "o", "d", "g", "i", "n", "g">>,
          <<"l", "o", "d", "g", "i", "n", "g">> >>,
       << <<"h", "o", "t", "e", "l">>,
          <<"l", "o", "d", "g", "i", "n", "g">> >>
    >>

TypeKeys == {type_mapping[i][1] : i \in 1..Len(type_mapping)}
valid_types == {type_mapping[i][2] : i \in 1..Len(type_mapping)}

\* validate_place_type without the call of lower()
validate_place_type_NoLower(place_type) ==
    LET pt == Strip(place_type)
    IN  IF pt \in TypeKeys
        THEN Return(type_mapping[CHOOSE i \in 1..Len(type_mapping) :
                                    type_mapping[i][1] = pt][2])
        ELSE IF pt \in valid_types THEN Return(pt)
        ELSE Raise("ValueError")

validate_place_type(place_type) ==
    LET pt == Strip(Lower(place_type))
    IN  IF pt \in TypeKeys
        THEN Return(type_mapping[CHOOSE i \in 1..Len(type_mapping) :
                                    type_mapping[i][1] = pt][2])
        ELSE IF pt \in valid_types THEN Return(pt)
        ELSE Raise("ValueError")

(***************************************************************************)
(* src/models.py: Place; src/places.py: parsing the provider's records     *)
(***************************************************************************)

MinRatingField == 0     \* Place.rating: ge=0
MaxRatingField == 50    \* Place.rating: le=5 (in tenths)
MinPriceField == 0      \* Place.price_level: ge=0
MaxPriceField == 4      \* Place.price_level: le=4

\* Place(...): pydantic's validation of the constrained fields
PlaceFieldsValid(rating, price_level) ==
    /\ rating # None => (MinRatingField <= rating[1] /\ rating[1] <= MaxRatingField)
    /\ price_level # None =>
         (MinPriceField <= price_level[1] /\ price_level[1] <= MaxPriceField)

\* A provider record has the keys place_id, name, vicinity, rating,
\* user_ratings_total, price_level, types, geometry, opening_hours, photos,
\* each Optional (None: the key is absent); geometry is [location], location
\* is [lat, lng], opening_hours is [open_now], photos is a list of
\* [photo_reference].

\* lines 169-181: the fields set after the Place is built
PlaceExtras(place_data) ==
    LET g == place_data.geometry
        oh == place_data.opening_hours
        ph == place_data.photos
        has_loc == g # None /\ g[1].location # None
    IN  [latitude |-> IF has_loc THEN g[1].location[1].lat ELSE None,
         longitude |-> IF has_loc THEN g[1].location[1].lng ELSE None,
         is_open_now |-> IF oh # None THEN oh[1].open_now ELSE None,
         photo_reference |->
             IF ph # None /\ ph[1] # <<>> THEN ph[1][1].photo_reference ELSE None]

\* lines 158-167: Place(...), with the defaults of the absent keys
PlaceOf(place_data) ==
    LET x == PlaceExtras(place_data)
    IN  [place_id |-> place_data.place_id[1],
         name |-> place_data.name[1],
         address |-> IF place_data.vicinity = None THEN <<>> ELSE place_data.vicinity[1],
         rating |-> place_data.rating,
         user_ratings_total |->
             IF place_data.user_ratings_total = None THEN 0
             ELSE place_data.user_ratings_total[1],
         price_level |-> place_data.price_level,
         types |-> IF place_data.types = None THEN <<>> ELSE place_data.types[1],
         latitude |-> x.latitude,
         longitude |-> x.longitude,
         is_open_now |-> x.is_open_now,
         photo_reference |-> x.photo_reference]

\* parse_single_place with a Place whose rating and price_level are unbounded
parse_single_place_Unbounded(place_data) ==
    IF place_data.place_id = None \/ place_data.name = None
    THEN Return(None)
    ELSE Return(Some(PlaceOf(place_data)))

\* parse_single_place returns None for a missing required key (KeyError) and
\* lets pydantic's ValidationError, a ValueError, escape.
parse_single_place(place_data) ==
    IF place_data.place_id = None \/ place_data.name = None
    THEN Return(None)
    ELSE IF ~PlaceFieldsValid(place_data.rating, place_data.price_level)
    THEN Raise("ValidationError")
    ELSE Return(Some(PlaceOf(place_data)))

RECURSIVE parse_places_response(_)
parse_places_response(results) ==
    IF results = <<>> THEN <<>>
    ELSE LET r == parse_single_place(Head(results))
             rest == parse_places_response(Tail(results))
         IN  IF Raised(r) THEN rest            \* except (KeyError, ValueError): continue
             ELSE IF r.v = None THEN rest      \* if place: ...
             ELSE <<r.v[1]>> \o rest

(***************************************************************************)
(* src/places.py: the places fetch                                         *)
(***************************************************************************)

\* the request of fetch_places_from_api; the keyword is sent only if truthy
PlacesCall(location, place_type, radius, keyword) ==
    [api |-> "nearbysearch", location |-> location, type |-> place_type,
     radius |-> radius,
     keyword |-> IF keyword # None /\ keyword[1] # <<>> THEN keyword ELSE None]

\* the outcome of fetch_places_from_api, given the provider's answer:
\* [kind |-> "ok", results |-> records] (status OK or ZERO_RESULTS) or a failure
fetch_places_from_api(answer) ==
    CASE answer.kind = "ok" -> Return(parse_places_response(answer.results))
      [] answer.kind = "status_error" -> Raise("ValueError")
      [] answer.kind = "http_error" -> Raise("HTTPError")
      [] answer.kind = "timeout" -> Raise("TimeoutException")
      [] answer.kind \in {"network_error", "bad_json"} -> Raise("ValueError")

(***************************************************************************)
(* src/places.py: search_places, the steps between its awaits              *)
(***************************************************************************)

MinRadius == 1
MaxRadius == 50000
MinMinRating == 10   \* 1.0
MaxMinRating == 50   \* 5.0
MinPriceLevel == 0
MaxPriceLevel == 4
MaxResults == 20

\* Python's truth value of an Optional number
Truthy(x) == x # None /\ x[1] # 0

ClampRadius(radius) == Min(Max(radius, MinRadius), MaxRadius)

\* if min_rating: min_rating = min(max(min_rating, 1.0), 5.0)
ClampMinRating(min_rating) ==
    IF Truthy(min_rating)
    THEN Some(Min(Max(min_rating[1], MinMinRating), MaxMinRating))
    ELSE min_rating

\* if price_level is not None: price_level = min(max(price_level, 0), 4)
ClampPriceLevel(price_level) ==
    IF price_level # None
    THEN Some(Min(Max(price_level[1], MinPriceLevel), MaxPriceLevel))
    ELSE price_level

\* p.rating and p.rating >= min_rating
KeepRating(p, min_rating) == Truthy(p.rating) /\ p.rating[1] >= min_rating[1]

\* if min_rating: places = [p for p in places if ...]
FilterRating(places, min_rating) ==
    IF Truthy(min_rating)
    THEN SelectSeq(places, LAMBDA p : KeepRating(p, min_rating))
    ELSE places

\* the price filter letting a place without price_level pass
FilterPrice_KeepUnpriced(places, price_level) ==
    IF price_level # None
    THEN SelectSeq(places, LAMBDA p : p.price_level = None \/ p.price_level = price_level)
    ELSE places

\* if price_level is not None: places = [p for p in places if p.price_level == price_level]
FilterPrice(places, price_level) ==
    IF price_level # None
    THEN SelectSeq(places, LAMBDA p : p.price_level = price_level)
    ELSE places

\* key=lambda p: p.rating or 0
SortKey(p) == IF Truthy(p.rating) THEN p.rating[1] ELSE 0

\* one place inserted into a list sorted by key, descending, after the
\* places of equal key (list.sort is stable, also with reverse=True)
InsertByRating(sorted, p) ==
    LET before == {i \in 1..Len(sorted) : SortKey(sorted[i]) >= SortKey(p)}
        k == Cardinality(before)
    IN  SubSeq(sorted, 1, k) \o <<p>> \o SubSeq(sorted, k + 1, Len(sorted))

RECURSIVE SortByRating_Ascending(_)
\* the sort without reverse=True
SortByRating_Ascending(places) ==
    IF places = <<>> THEN <<>>
    ELSE LET sorted == SortByRating_Ascending(SubSeq(places, 1, Len(places) - 1))
             p == places[Len(places)]
             k == Cardinality({i \in 1..Len(sorted) : SortKey(sorted[i]) <= SortKey(p)})
         IN  SubSeq(sorted, 1, k) \o <<p>> \o SubSeq(sorted, k + 1, Len(sorted))

RECURSIVE SortByRating(_)
\* places.sort(key=lambda p: p.rating or 0, reverse=True)
SortByRating(places) ==
    IF places = <<>> THEN <<>>
    ELSE InsertByRating(SortByRating(SubSeq(places, 1, Len(places) - 1)),
                        places[Len(places)])

\* places[:20]
Truncate(places) == SubSeq(places, 1, Min(Len(places), MaxResults))

\* lines 60-70: filter, sort, truncate
FilterSortTruncate(places, min_rating, price_level) ==
    Truncate(SortByRating(FilterPrice(FilterRating(places, min_rating), price_level)))

(***************************************************************************)
(* src/models.py: Event; src/events.py: parsing the provider's records     *)
(***************************************************************************)

\* An upstream event record.  Every key is Optional (None: the key is absent):
\*   name, id, url
\*   dates            [start : Optional [localDate, localTime]]
\*   embedded         [venues : Optional list of [name, address, city]],
\*                    address is Optional [line1], city is Optional [name]
\*   priceRanges      list of [min, max]
\*   classifications  list of [segment, genre], each Optional [name]

GoodUrl == "https://provider.example/event"
BadUrl == "not a url"

\* the steps of the try block, lines 84-128; each yields the fields it
\* extracts, or the exception it raises

\* lines 84-88: Event(name=..., id=..., url=...)
EventRequired(e) ==
    IF e.name = None \/ e.id = None \/ e.url = None THEN Raise("KeyError")
    ELSE IF e.url[1] # GoodUrl THEN Raise("ValidationError")   \* HttpUrl
    ELSE Return([name |-> e.name[1], id |-> e.id[1], url |-> e.url])

\* lines 90-98
EventDates(e) ==
    IF e.dates # None /\ e.dates[1].start # None
    THEN LET start == e.dates[1].start[1]
             parsed == IF start.localDate # None
                       THEN strptime(start.localDate[1]) ELSE None
         IN  IF start.localDate # None /\ parsed = None THEN Raise("ValueError")
             ELSE IF start.localTime = None THEN Raise("KeyError")
             ELSE Return([start_date |-> parsed, start_time |-> start.localTime])
    ELSE Return([start_date |-> None, start_time |-> None])

\* lines 100-111
EventVenue(e) ==
    IF e.embedded # None /\ e.embedded[1].venues # None
    THEN LET venues == e.embedded[1].venues[1]
         IN  IF venues = <<>> THEN Raise("IndexError")
             ELSE LET venue == venues[1]
                  IN  Return(
                        [venue_name |-> venue.name,
                         venue_address |->
                            IF venue.address # None THEN venue.address[1].line1
                            ELSE None,
                         venue_city |->
                            IF venue.city # None THEN venue.city[1].name ELSE None])
    ELSE Return([venue_name |-> None, venue_address |-> None, venue_city |-> None])

\* lines 113-116
EventPrices(e) ==
    IF e.priceRanges # None /\ e.priceRanges[1] # <<>>
    THEN LET price_range == e.priceRanges[1][1]
         IN  IF price_range.min = None \/ price_range.max = None
             THEN Raise("KeyError")
             ELSE Return([price_min |-> price_range.min, price_max |-> price_range.max])
    ELSE Return([price_min |-> None, price_max |-> None])

\* lines 118-126
EventClassification(e) ==
    IF e.classifications # None /\ e.classifications[1] # <<>>
    THEN LET c == e.classifications[1][1]
         IN  Return([category |-> IF c.segment # None THEN c.segment[1].name ELSE None,
                     genre |-> IF c.genre # None THEN c.genre[1].name ELSE None])
    ELSE Return([category |-> None, genre |-> None])

\* the first exception of the steps, taken in order, or the Event
parse_single_event(e) ==
    LET req == EventRequired(e)
        dat == EventDates(e)
        ven == EventVenue(e)
        pri == EventPrices(e)
        cla == EventClassification(e)
    IN  IF Raised(req) THEN req
        ELSE IF Raised(dat) THEN dat
        ELSE IF Raised(ven) THEN ven
        ELSE IF Raised(pri) THEN pri
        ELSE IF Raised(cla) THEN cla
        ELSE Return([name |-> req.v.name, id |-> req.v.id, url |-> req.v.url,
                     start_date |-> dat.v.start_date, start_time |-> dat.v.start_time,
                     venue_name |-> ven.v.venue_name,
                     venue_address |-> ven.v.venue_address,
                     venue_city |-> ven.v.venue_city,
                     price_min |-> pri.v.price_min, price_max |-> pri.v.price_max,
                     category |-> cla.v.category, genre |-> cla.v.genre])

\* except (KeyError, ValueError); pydantic's ValidationError is a ValueError
CaughtPerRecord(exc) == exc \in {"KeyError", "ValueError", "ValidationError"}

RECURSIVE ParseEventList(_, _)
\* the loop of lines 81-132 over the records left, events the list so far
ParseEventList(records, events) ==
    IF records = <<>> THEN Return(events)
    ELSE LET r == parse_single_event(Head(records))
         IN  IF Returned(r) THEN ParseEventList(Tail(records), Append(events, r.v))
             ELSE IF CaughtPerRecord(r.exc) THEN ParseEventList(Tail(records), events)
             ELSE r

\* data is [events : Optional list]: None when the response has no
\* _embedded.events container
parse_events_response(data) ==
    IF data.events = None THEN Return(<<>>)
    ELSE ParseEventList(data.events[1], <<>>)

(***************************************************************************)
(* src/events.py: search_events and fetch_events_by_date                   *)
(***************************************************************************)

DefaultRadius == 50     \* EventSearch.radius
FetchSize == 30         \* fetch_events_by_date: size=30

\* a function that falls off its end returns Python's None
ReturnNone == [kind |-> "return_none"]
ReturnedNone(r) == r.kind = "return_none"

\* EventSearch(city=..., start_date=..., end_date=..., keyword=..., size=30)
EventSearch(city, start_date, end_date, keyword) ==
    [city |-> city, keyword |-> keyword, start_date |-> start_date,
     end_date |-> end_date, radius |-> DefaultRadius, unit |-> "miles",
     size |-> FetchSize]

\* lines 40-42: the end date moved one day on, written back into the request
\* object.  Return(the object after the assignment), or the exception.
ExtendEndDate(s) ==
    LET end == strptime(s.end_date)
    IN  IF end = None THEN Raise("ValueError")
        ELSE IF AddOneDay(end[1]) = None THEN Raise("OverflowError")
        ELSE Return([s EXCEPT !.end_date = strftime(AddOneDay(end[1])[1])])

\* lines 44-55: the request built from the object after line 42
EventsCall(s) ==
    [api |-> "events", city |-> s.city,
     startDateTime |-> s.start_date, endDateTime |-> s.end_date,
     size |-> s.size, unit |-> s.unit, radius |-> s.radius,
     keyword |-> IF s.keyword # None /\ s.keyword[1] # <<>> THEN s.keyword ELSE None]

\* lines 59-67: the try block, given the provider's answer
\* [kind |-> "ok", data |-> ...] or a failure; except Exception: print(...)
\* falls off the end of the function
SearchEventsResult(answer) ==
    IF answer.kind = "ok"
    THEN LET r == parse_events_response(answer.data)
         IN  IF Raised(r) THEN ReturnNone ELSE r
    ELSE ReturnNone

\* server.get_events_by_date, lines 32-38: for event in events: ...
\* (iterating None is a TypeError; the tool has no handler)
DumpEvents(r) ==
    IF ReturnedNone(r) THEN Raise("TypeError") ELSE r

\* fetch_events_by_date without the call of validate_start_end_dates (line 28)
ValidateEventArgs_DatesUnchecked(a) ==
    LET city == validate_location(a.city)
        kw == IF a.keyword # None /\ a.keyword[1] # <<>>
              THEN validate_keyword(a.keyword[1]) ELSE Return(<<>>)
    IN  IF Raised(city) THEN city
        ELSE IF Raised(kw) THEN kw
        ELSE Return(EventSearch(city.v, a.start_date, a.end_date,
                                IF a.keyword # None /\ a.keyword[1] # <<>>
                                THEN Some(kw.v) ELSE a.keyword))

\* fetch_events_by_date, lines 24-31: validation and the request object
ValidateEventArgs(a) ==
    LET city == validate_location(a.city)
        kw == IF a.keyword # None /\ a.keyword[1] # <<>>
              THEN validate_keyword(a.keyword[1]) ELSE Return(<<>>)
        dates == validate_start_end_dates(a.start_date, a.end_date, a.now)
    IN  IF Raised(city) THEN city
        ELSE IF Raised(kw) THEN kw
        ELSE IF Raised(dates) THEN dates
        ELSE Return(EventSearch(city.v, dates.v[1], dates.v[2],
                                IF a.keyword # None /\ a.keyword[1] # <<>>
                                THEN Some(kw.v) ELSE a.keyword))

(***************************************************************************)
(* src/server.py: the tool surface of the places pipeline                  *)
(***************************************************************************)

\* a tool that ends by returning its fixed error shape
ReturnError(msg) == [kind |-> "return_error", v |-> [error |-> msg]]
ReturnedError(r) == r.kind = "return_error"

SearchPlacesFailed == "Search places tool failed"
PlaceDetailsFailed == "Get place details tool failed"

\* int(s) for a str: an optional sign and digits; None is ValueError
int(s) ==
    LET t == Strip(s)
        signed == t # <<>> /\ t[1] \in {"-", "+"}
        u == IF signed THEN Tail(t) ELSE t
    IN  IF u = <<>> \/ \E i \in 1..Len(u) : ~IsDigit(u[i]) THEN None
        ELSE Some((IF signed /\ t[1] = "-" THEN -1 ELSE 1) * DigitsToInt(u))

\* A tool argument that may arrive as a number or as a str is
\* [num |-> n] or [str |-> s].
IsStr(x) == "str" \in DOMAIN x

\* lines 70-72: float(min_rating) if it is a str.  Ratings are in tenths.
CoerceMinRating(min_rating) ==
    IF min_rating = None THEN Return(None)
    ELSE IF IsStr(min_rating[1])
    THEN LET f == float(min_rating[1].str)
         IN  IF f = None THEN Raise("ValueError")
             ELSE Return(Some((f[1].num * 10) \div f[1].den))
    ELSE Return(Some(min_rating[1].num))

\* lines 74-76: int(price_level) if it is a str
CoercePriceLevel(price_level) ==
    IF price_level = None THEN Return(None)
    ELSE IF IsStr(price_level[1])
    THEN LET n == int(price_level[1].str)
         IN  IF n = None THEN Raise("ValueError") ELSE Return(Some(n[1]))
    ELSE Return(Some(price_level[1].num))

\* the handler narrowed to except ValueError
ToolCatch_OnlyValueError(o, r) ==
    IF o = "server.search_places" /\ Raised(r) /\ r.exc = "ValueError"
    THEN ReturnError(SearchPlacesFailed)
    ELSE IF o = "server.get_place_details" /\ Raised(r) /\ r.exc = "ValueError"
    THEN ReturnError(PlaceDetailsFailed)
    ELSE r

\* except Exception as e: return {"error": ...}, around the body of the two
\* places tools; the function called directly has no such handler
ToolCatch(o, r) ==
    IF o = "server.search_places" /\ Raised(r)
    THEN ReturnError(SearchPlacesFailed)
    ELSE IF o = "server.get_place_details" /\ Raised(r)
    THEN ReturnError(PlaceDetailsFailed)
    ELSE r

(***************************************************************************)
(* Inputs of the places pipeline                                           *)
(***************************************************************************)

MaxBatch == 2    \* short provider batches: every batch up to this length

\* the kinds of record the places provider sends
PlaceKinds ==
    << [has_id |-> TRUE, has_name |-> TRUE, rating |-> Some(45), price_level |-> Some(2)],
       [has_id |-> TRUE, has_name |-> TRUE, rating |-> None, price_level |-> None],
       [has_id |-> TRUE, has_name |-> TRUE, rating |-> Some(30), price_level |-> Some(2)],
       [has_id |-> TRUE, has_name |-> TRUE, rating |-> Some(45), price_level |-> Some(0)],
       [has_id |-> TRUE, has_name |-> TRUE, rating |-> Some(0), price_level |-> None],
       [has_id |-> TRUE, has_name |-> TRUE, rating |-> None, price_level |-> Some(2)],
       [has_id |-> TRUE, has_name |-> TRUE, rating |-> Some(30), price_level |-> None],
       [has_id |-> TRUE, has_name |-> TRUE, rating |-> Some(50), price_level |-> Some(4)],
       [has_id |-> FALSE, has_name |-> TRUE, rating |-> Some(45), price_level |-> Some(2)],
       [has_id |-> TRUE, has_name |-> FALSE, rating |-> Some(45), price_level |-> Some(2)],
       [has_id |-> TRUE, has_name |-> TRUE, rating |-> Some(60), price_level |-> Some(2)],
       [has_id |-> TRUE, has_name |-> TRUE, rating |-> Some(45), price_level |-> Some(5)] >>

\* the keys of a record besides the four of its kind: none of them
BareExtra ==
    [vicinity |-> None, user_ratings_total |-> None, types |-> None,
     geometry |-> None, opening_hours |-> None, photos |-> None]

\* all of them
FullExtra ==
    [vicinity |-> Some(<<"1", " ", "A", "v", "e">>),
     user_ratings_total |-> Some(12),
     types |-> Some(<< <<"z", "o", "o">> >>),
     geometry |-> Some([location |-> Some([lat |-> Some(34), lng |-> Some(-118)])]),
     opening_hours |-> Some([open_now |-> Some(TRUE)]),
     photos |-> Some(<<[photo_reference |-> Some("ref")]>>)]

\* the record at position i of a batch; its place_id is its position
PlaceRecord(i, kind, extra) ==
    [place_id |-> IF kind.has_id THEN Some(i) ELSE None,
     name |-> IF kind.has_name THEN Some("name") ELSE None,
     rating |-> kind.rating,
     price_level |-> kind.price_level,
     vicinity |-> extra.vicinity,
     user_ratings_total |-> extra.user_ratings_total,
     types |-> extra.types,
     geometry |-> extra.geometry,
     opening_hours |-> extra.opening_hours,
     photos |-> extra.photos]

\* the provider's records for a sequence of kinds
MkBatch(kinds) == [i \in 1..Len(kinds) |-> PlaceRecord(i, kinds[i], BareExtra)]

ShortBatches ==
    {MkBatch(k) : k \in SeqsUpTo({PlaceKinds[i] : i \in 1..Len(PlaceKinds)}, MaxBatch)}

\* the kinds that parse come first in PlaceKinds
WellFormedKinds ==
    Cardinality({i \in 1..Len(PlaceKinds) :
        /\ PlaceKinds[i].has_id
        /\ PlaceKinds[i].has_name
        /\ PlaceFieldsValid(PlaceKinds[i].rating, PlaceKinds[i].price_level)})

\* batches around the limit of 20 results: well-formed kinds taken in turn,
\* and all the kinds taken in turn
LongBatches ==
    {MkBatch([i \in 1..n |-> PlaceKinds[((i * stride) % k) + 1]]) :
        n \in (MaxResults - 1)..(MaxResults + 2), stride \in {1, 5},
        k \in {WellFormedKinds, Len(PlaceKinds)}}

\* records at and just beyond the limits of rating and price_level, and a
\* record with nothing but its price
LimitKinds ==
    { [has_id |-> TRUE, has_name |-> TRUE, rating |-> Some(MaxRatingField + 1), price_level |-> None],
      [has_id |-> TRUE, has_name |-> TRUE, rating |-> Some(MinRatingField - 1), price_level |-> Some(MinPriceField)],
      [has_id |-> TRUE, has_name |-> TRUE, rating |-> Some(MaxRatingField), price_level |-> Some(MaxPriceField + 1)],
      [has_id |-> TRUE, has_name |-> TRUE, rating |-> None, price_level |-> Some(MinPriceField - 1)],
      [has_id |-> FALSE, has_name |-> FALSE, rating |-> None, price_level |-> Some(2)] }

\* the shapes the optional keys of a record take
ExtraShapes ==
    { BareExtra, FullExtra,
      [FullExtra EXCEPT !.geometry = Some([location |-> None])],
      [FullExtra EXCEPT !.geometry = Some([location |-> Some([lat |-> None, lng |-> None])])],
      [FullExtra EXCEPT !.opening_hours = Some([open_now |-> None])],
      [FullExtra EXCEPT !.photos = Some(<<>>)],
      [FullExtra EXCEPT !.photos = Some(<<[photo_reference |-> None]>>)] }

\* << kind, extra >>: every kind without optional keys, a well-formed kind
\* and an out-of-range kind with every shape of the optional keys
ParserRecords ==
    { <<k, BareExtra>> : k \in {PlaceKinds[i] : i \in 1..Len(PlaceKinds)} \cup LimitKinds }
    \cup { <<PlaceKinds[1], e>> : e \in ExtraShapes }
    \cup { <<PlaceKinds[Len(PlaceKinds)], e>> : e \in ExtraShapes }

\* the provider bodies given to parse_places_response on its own: None is a
\* body without "results"
ParserBodies ==
    { None } \cup
    { Some([i \in 1..Len(p) |-> PlaceRecord(i, p[i][1], p[i][2])]) :
        p \in SeqsUpTo(ParserRecords, MaxBatch) }

PlacesFailures ==
    { [kind |-> "status_error"], [kind |-> "http_error"], [kind |-> "timeout"],
      [kind |-> "network_error"], [kind |-> "bad_json"] }

\* the answers explored for a call of the function, and for a call of the tool
PlacesAnswers(o) ==
    IF o = "places.search_places"
    THEN {[kind |-> "ok", results |-> b] : b \in ShortBatches \cup LongBatches}
            \cup {[kind |-> "status_error"]}
    ELSE {[kind |-> "ok", results |-> b] : b \in LongBatches} \cup PlacesFailures

Loc_Coords == <<"3", "4", ",", "-", "1", "1", "8">>
Loc_Address == <<"L", "A">>
Loc_OutOfRange == <<"9", "1", ",", "0">>

Loc_CoordsSpaced == <<" ", "3", "4", ".", "5", " ", ",", " ", "-", "1", "1", "8", ".", "2", "5">>
Loc_Boundary == <<"-", "9", "0", ",", "1", "8", "0">>
Loc_LatJustOver == <<"9", "0", ".", "1", ",", "0">>
Loc_LngJustOver == <<"0", ",", "-", "1", "8", "0", ".", "5">>
Loc_ThreeParts == <<"1", ",", "2", ",", "3">>
Loc_OnePart == <<"3", "4">>
Loc_CityState == <<"L", "A", ",", "C", "A">>
Loc_HalfNumber == <<"3", "4", ",", "x">>
Loc_NoNumbers == <<",">>

\* locations around the coordinate format
LocationInputs ==
    { Loc_Coords, Loc_CoordsSpaced, Loc_Boundary, Loc_Address, Loc_OutOfRange,
      Loc_LatJustOver, Loc_LngJustOver, Loc_ThreeParts, Loc_OnePart,
      Loc_CityState, Loc_HalfNumber, Loc_NoNumbers }

Type_Alias == <<" ", "H", "i", "k", "i", "n", "g", " ">>
Type_Canonical == <<"z", "o", "o">>
Type_Unknown == <<"n", "o", "t", "_", "a", "_", "t", "y", "p", "e">>

\* arguments of places.search_places: every filter, few requests
FunctionArgs ==
    [location : {Loc_Coords, Loc_Address},
     place_type : {Type_Alias, Type_Unknown},
     radius : {5000},
     keyword : {None},
     min_rating : {None, Some(0), Some(5), Some(35), Some(60)},
     price_level : {None, Some(-1), Some(0), Some(2), Some(7)}]

\* arguments of places.search_places: every location, no filter
RoutingArgs ==
    [location : LocationInputs,
     place_type : {Type_Canonical, Type_Unknown},
     radius : {5000},
     keyword : {None},
     min_rating : {None},
     price_level : {None}]

\* arguments of the search_places tool: numbers and strs, every request
ToolArgs ==
    [location : {Loc_Coords, Loc_Address, Loc_OutOfRange},
     place_type : {Type_Alias, Type_Canonical, Type_Unknown},
     radius : {0, 5000, 60000},
     keyword : {None, Some(<<>>), Some(<<"a">>)},
     min_rating : {None, Some([num |-> 0]), Some([str |-> <<"3", ".", "5">>]), Some([str |-> <<"a">>])},
     price_level : {None, Some([num |-> 2]), Some([str |-> <<"0">>]), Some([str |-> <<"3", ".", "5">>])}]

(***************************************************************************)
(* Inputs of the events pipeline                                           *)
(***************************************************************************)

MaxEvents == 2   \* provider batches of events: every batch up to this length

Date_Good == <<"2", "0", "2", "7", "-", "0", "3", "-", "0", "1">>
Date_Unparsable == <<"0", "3", "/", "0", "1", "/", "2", "0", "2", "7">>

FullVenue ==
    [name |-> Some("Arena"), address |-> Some([line1 |-> Some("1 Main St")]),
     city |-> Some([name |-> Some("Springfield")])]

FullClassification ==
    [segment |-> Some([name |-> Some("Music")]), genre |-> Some([name |-> Some("Rock")])]

FullStart == [localDate |-> Some(Date_Good), localTime |-> Some("19:30:00")]

\* a record with every key present and well formed
FullEvent ==
    [name |-> Some("Show"), id |-> Some("id"), url |-> Some(GoodUrl),
     dates |-> Some([start |-> Some(FullStart)]),
     embedded |-> Some([venues |-> Some(<<FullVenue>>)]),
     priceRanges |-> Some(<<[min |-> Some(10), max |-> Some(20)]>>),
     classifications |-> Some(<<FullClassification>>)]

\* the record with only name, id and url
BareEvent ==
    [name |-> Some("Show"), id |-> Some("id"), url |-> Some(GoodUrl),
     dates |-> None, embedded |-> None, priceRanges |-> None,
     classifications |-> None]

\* the kinds of record explored: the full record, and the records that differ
\* from it in one key
EventKinds ==
    { FullEvent,
      BareEvent,
      [BareEvent EXCEPT !.url = None],
      [FullEvent EXCEPT !.name = None],
      [FullEvent EXCEPT !.id = None],
      [FullEvent EXCEPT !.url = None],
      [FullEvent EXCEPT !.url = Some(BadUrl)],
      [FullEvent EXCEPT !.dates = None],
      [FullEvent EXCEPT !.dates = Some([start |-> None])],
      [FullEvent EXCEPT !.dates = Some([start |-> Some([FullStart EXCEPT !.localDate = None])])],
      [FullEvent EXCEPT !.dates =
          Some([start |-> Some([FullStart EXCEPT !.localDate = Some(Date_Unparsable)])])],
      [FullEvent EXCEPT !.dates = Some([start |-> Some([FullStart EXCEPT !.localTime = None])])],
      [FullEvent EXCEPT !.embedded = None],
      [FullEvent EXCEPT !.embedded = Some([venues |-> None])],
      [FullEvent EXCEPT !.embedded = Some([venues |-> Some(<<>>)])],
      [FullEvent EXCEPT !.embedded = Some([venues |-> Some(<<[FullVenue EXCEPT !.name = None]>>)])],
      [FullEvent EXCEPT !.embedded = Some([venues |-> Some(<<[FullVenue EXCEPT !.address = None]>>)])],
      [FullEvent EXCEPT !.embedded =
          Some([venues |-> Some(<<[FullVenue EXCEPT !.address = Some([line1 |-> None])]>>)])],
      [FullEvent EXCEPT !.embedded = Some([venues |-> Some(<<[FullVenue EXCEPT !.city = None]>>)])],
      [FullEvent EXCEPT !.priceRanges = None],
      [FullEvent EXCEPT !.priceRanges = Some(<<>>)],
      [FullEvent EXCEPT !.priceRanges = Some(<<[min |-> None, max |-> Some(20)]>>)],
      [FullEvent EXCEPT !.priceRanges = Some(<<[min |-> Some(10), max |-> None]>>)],
      [FullEvent EXCEPT !.classifications = None],
      [FullEvent EXCEPT !.classifications = Some(<<>>)],
      [FullEvent EXCEPT !.classifications = Some(<<[FullClassification EXCEPT !.segment = None]>>)],
      [FullEvent EXCEPT !.classifications = Some(<<[FullClassification EXCEPT !.genre = None]>>)] }

\* the provider's records for a sequence of kinds; the id of a record that
\* has one is its position in the batch
MkEvents(kinds) ==
    [i \in 1..Len(kinds) |->
        IF kinds[i].id # None THEN [kinds[i] EXCEPT !.id = Some(i)] ELSE kinds[i]]

EventBatches == {MkEvents(k) : k \in SeqsUpTo(EventKinds, MaxEvents)}

\* the bodies the events provider sends: no container, or a list of records
EventsData ==
    {[events |-> None]} \cup {[events |-> Some(b)] : b \in EventBatches}

EventsFailures ==
    { [kind |-> "http_error"], [kind |-> "timeout"], [kind |-> "network_error"],
      [kind |-> "bad_json"] }

\* the answers explored for a call through the events pipeline
EventsAnswers ==
    EventsFailures
        \cup {[kind |-> "ok", data |-> [events |-> None]]}
        \cup {[kind |-> "ok", data |-> [events |-> Some(MkEvents(k))]] :
                k \in { <<>>, <<FullEvent>>, <<FullEvent, BareEvent>>,
                        <<[FullEvent EXCEPT !.embedded = Some([venues |-> Some(<<>>)])]>>,
                        <<[FullEvent EXCEPT !.id = None], FullEvent>> }}

Date_Dec30 == <<"2", "0", "2", "6", "-", "1", "2", "-", "3", "0">>
Date_Dec31 == <<"2", "0", "2", "6", "-", "1", "2", "-", "3", "1">>
Date_Jan1 == <<"2", "0", "2", "7", "-", "0", "1", "-", "0", "1">>
Date_Jan5_Short == <<"2", "0", "2", "7", "-", "1", "-", "5">>
Date_Feb28_Leap == <<"2", "0", "2", "8", "-", "0", "2", "-", "2", "8">>
Date_Feb29_NoLeap == <<"2", "0", "2", "7", "-", "0", "2", "-", "2", "9">>
Date_Last == <<"9", "9", "9", "9", "-", "1", "2", "-", "3", "1">>

Date_Jan5_Spaced == <<"2", "0", "2", "7", "-", "0", "1", "-", " ", "5">>
Date_Jan5_Trailing == <<"2", "0", "2", "7", "-", "0", "1", "-", "0", "5", " ">>
Date_Month13 == <<"2", "0", "2", "7", "-", "1", "3", "-", "0", "1">>
Date_ShortYear == <<"2", "7", "-", "0", "1", "-", "0", "5">>
Date_Slashes == <<"2", "0", "2", "7", "/", "0", "1", "/", "0", "5">>

DateInputs ==
    { Date_Dec30, Date_Dec31, Date_Jan1, Date_Jan5_Short, Date_Feb28_Leap,
      Date_Feb29_NoLeap, Date_Unparsable, Date_Last }

MaxClock == 1   \* times of day tried, counted from midnight

\* datetime.now(): the day, and the time of day (0 is midnight)
Nows ==
    { [date |-> [y |-> 2026, m |-> 12, d |-> 30], time |-> 0],
      [date |-> [y |-> 2026, m |-> 12, d |-> 30], time |-> 1],
      [date |-> [y |-> 2026, m |-> 12, d |-> 29], time |-> 1] }

\* the date strings given to validate_start_end_dates on its own
DateStrings ==
    DateInputs \cup { Date_Jan5_Spaced, Date_Jan5_Trailing, Date_Month13,
                      Date_ShortYear, Date_Slashes, <<>> }

\* datetime.now() around the dates above: the day before, the same day at
\* midnight and later, the day after, and a day in another month and year
ValidatorNows ==
    Nows \cup { [date |-> [y |-> 2026, m |-> 12, d |-> 31], time |-> t] : t \in 0..MaxClock }
         \cup { [date |-> [y |-> 2027, m |-> 1, d |-> 1], time |-> t] : t \in 0..MaxClock }
         \cup { [date |-> [y |-> 2027, m |-> 1, d |-> 4], time |-> MaxClock],
                [date |-> [y |-> 2027, m |-> 1, d |-> 5], time |-> 0],
                [date |-> [y |-> 2028, m |-> 2, d |-> 28], time |-> 0] }

CityInputs ==
    { <<"L", "A">>, <<" ", "L", "A", " ">>, <<"L", "<", "A">>, <<"a">>, <<>>,
      Fill("a", MaxLocationLen), Fill("a", MaxLocationLen + 1) }

KeywordInputs ==
    { None, Some(<<>>), Some(<<"j", "a", "z", "z">>), Some(<<"a", "&", "b">>), Some(<<" ", " ">>),
      Some(Fill("a", MaxKeywordLen + 1)) }

EventArgs ==
    [city : CityInputs, keyword : KeywordInputs,
     start_date : DateInputs, end_date : DateInputs, now : Nows]

(***************************************************************************)
(* Input strings of the validators                                         *)
(***************************************************************************)

MaxBody == 3   \* short strings: every string over Alphabet up to this length
MaxPad == 1    \* long strings: whitespace added at each end, up to this much

Alphabet == {"a", " ", "<", Backtick}

ShortStrings == SeqsUpTo(Alphabet, MaxBody)

\* strings whose trimmed length is around the limit of 200, with and
\* without a forbidden character, with and without surrounding whitespace
LongStrings ==
    { Fill(" ", l) \o body \o Fill("\t", r) :
        l \in 0..MaxPad, r \in 0..MaxPad,
        body \in { Fill("a", n) : n \in (MaxLocationLen - 1)..(MaxLocationLen + 1) }
            \cup { Append(Fill("a", n - 1), "<") :
                     n \in (MaxLocationLen - 1)..(MaxLocationLen + 1) } }

StringInputs == ShortStrings \cup LongStrings

\* the letters a-z of s in upper case
UpperChar(c) ==
    IF \E i \in 1..Len(LowerCase) : LowerCase[i] = c
    THEN UpperCase[CHOOSE i \in 1..Len(LowerCase) : LowerCase[i] = c]
    ELSE c

Upper(s) == [i \in 1..Len(s) |-> UpperChar(s[i])]
Capitalize(s) == [i \in 1..Len(s) |-> IF i = 1 THEN UpperChar(s[i]) ELSE s[i]]

Type_Hiking == <<"h", "i", "k", "i", "n", "g">>
Type_Park == <<"p", "a", "r", "k">>
Type_ShoppingMall == <<"s", "h", "o", "p", "p", "i", "n", "g", "_", "m", "a", "l", "l">>

\* strings that name no place type: near misses of aliases and categories
UnknownTypes ==
    { Type_Unknown, <<>>, <<" ">>,
      <<"h", "i", "k", " ", "i", "n", "g">>,
      <<"h", "i", "k", "i", "n">>,
      <<"p", "a", "r", "k", "s", "s">>,
      <<"s", "h", "o", "p", "p", "i", "n", "g", " ", "m", "a", "l", "l">>,
      <<"h", "i", "k", "i", "n", "g", "-", "a", "r", "e", "a">>,
      <<"z", "o", "o", "<">> }

\* the place types given to validate_place_type on its own: every alias and
\* every category of the table in lower, upper and capitalized letters, with
\* whitespace at either end, and the strings that name no type
PlaceTypeInputs ==
    { Fill(" ", l) \o w \o Fill("\t", r) :
        l \in 0..MaxPad, r \in 0..MaxPad,
        w \in UNION { {k, Upper(k), Capitalize(k)} : k \in TypeKeys \cup valid_types } }
    \cup UnknownTypes
    \cup { <<" ">> \o u \o <<" ">> : u \in UnknownTypes }

(***************************************************************************)
(* The state machine: the validators                                       *)
(***************************************************************************)

Init ==
    /\ pc = "idle"
    /\ op = "none"
    /\ args = <<>>
    /\ locals = <<>>
    /\ ret = Pending
    /\ calls = <<>>
    /\ search = None

\* the caller takes the outcome and the invocation's state is discarded
Finish ==
    /\ pc = "done"
    /\ pc' = "idle"
    /\ op' = "none"
    /\ args' = <<>>
    /\ locals' = <<>>
    /\ ret' = Pending
    /\ calls' = <<>>
    /\ UNCHANGED search

ValidateLocation ==
    /\ pc = "idle"
    /\ \E s \in StringInputs :
        /\ args' = [location |-> s]
        /\ ret' = validate_location(s)
    /\ op' = "validate_location"
    /\ calls' = <<>>
    /\ pc' = "done"
    /\ UNCHANGED <<locals, search>>

ValidateKeyword ==
    /\ pc = "idle"
    /\ \E s \in StringInputs :
        /\ args' = [keyword |-> s]
        /\ ret' = validate_keyword(s)
    /\ op' = "validate_keyword"
    /\ calls' = <<>>
    /\ pc' = "done"
    /\ UNCHANGED <<locals, search>>

\* validate_start_end_dates is called at the moment now
ValidateStartEndDates ==
    /\ pc = "idle"
    /\ \E sd \in DateStrings, ed \in DateStrings, now \in ValidatorNows :
        /\ args' = [start_date |-> sd, end_date |-> ed, now |-> now]
        /\ ret' = validate_start_end_dates(sd, ed, now)
    /\ op' = "validate_start_end_dates"
    /\ calls' = <<>>
    /\ pc' = "done"
    /\ UNCHANGED <<locals, search>>

ValidatePlaceType ==
    /\ pc = "idle"
    /\ \E s \in PlaceTypeInputs :
        /\ args' = [place_type |-> s]
        /\ ret' = validate_place_type(s)
    /\ op' = "places.validate_place_type"
    /\ calls' = <<>>
    /\ pc' = "done"
    /\ UNCHANGED <<locals, search>>

\* parse_places_response is applied to a provider body;
\* data.get("results", []) is the empty list for a body without "results"
ParsePlacesResponse ==
    /\ pc = "idle"
    /\ \E body \in ParserBodies :
        /\ args' = [results |-> body]
        /\ ret' = Return(parse_places_response(IF body = None THEN <<>> ELSE body[1]))
    /\ op' = "places.parse_places_response"
    /\ calls' = <<>>
    /\ pc' = "done"
    /\ UNCHANGED <<locals, search>>

(***************************************************************************)
(* src/places.py, src/server.py: the places pipeline as a state machine.   *)
(* search_places runs from the call to its first await, then from each     *)
(* provider's answer to the next await or to its end.                      *)
(***************************************************************************)

\* the call ends with outcome r and no further request
EndWith(r) ==
    /\ ret' = r
    /\ pc' = "done"

\* lines 40-58 of search_places, after the tool's coercion (server.py 70-76)
\* when the tool is the entry point: validate, clamp, then the first request
SP_Start(o, a) ==
    LET mr == IF o = "server.search_places"
              THEN CoerceMinRating(a.min_rating) ELSE Return(a.min_rating)
        pl == IF o = "server.search_places"
              THEN CoercePriceLevel(a.price_level) ELSE Return(a.price_level)
        pt == validate_place_type(a.place_type)
    IN  /\ op' = o
        /\ args' = a
        /\ UNCHANGED search
        /\ IF Raised(mr) THEN
               EndWith(ToolCatch(o, mr)) /\ calls' = <<>> /\ locals' = <<>>
           ELSE IF Raised(pl) THEN
               EndWith(ToolCatch(o, pl)) /\ calls' = <<>> /\ locals' = <<>>
           ELSE IF Raised(pt) THEN
               EndWith(ToolCatch(o, pt)) /\ calls' = <<>> /\ locals' = <<>>
           ELSE
               LET l == [location |-> a.location,
                         place_type |-> pt.v,
                         radius |-> ClampRadius(a.radius),
                         keyword |-> a.keyword,
                         min_rating |-> ClampMinRating(mr.v),
                         price_level |-> ClampPriceLevel(pl.v),
                         geo_answer |-> "none",
                         fetch_answer |-> "none",
                         fetched |-> <<>>]
               IN  /\ locals' = l
                   /\ ret' = Pending
                   /\ IF ~is_coordinates(a.location)
                      THEN /\ calls' = <<GeocodeCall(a.location)>>
                           /\ pc' = "geocoding"
                      ELSE /\ calls' = <<PlacesCall(l.location, l.place_type,
                                                    l.radius, l.keyword)>>
                           /\ pc' = "fetching"

\* places.search_places is called
SearchPlaces_Call ==
    /\ pc = "idle"
    /\ \E a \in FunctionArgs \cup RoutingArgs : SP_Start("places.search_places", a)

\* the search_places tool is called
Tool_SearchPlaces_Call ==
    /\ pc = "idle"
    /\ \E a \in ToolArgs : SP_Start("server.search_places", a)

\* lines 52-58: the geocoder answers; on success the places request follows
SearchPlaces_Geocoded ==
    /\ pc = "geocoding"
    /\ \E answer \in GeocodeAnswers :
        LET r == geocode_location(locals.location, answer)
        IN  IF Raised(r) THEN
                /\ EndWith(ToolCatch(op, r))
                /\ locals' = [locals EXCEPT !.geo_answer = answer.kind]
                /\ UNCHANGED calls
            ELSE
                LET loc == format_coordinates(r.v[1], r.v[2])
                IN  /\ locals' = [locals EXCEPT !.location = loc,
                                                !.geo_answer = answer.kind]
                    /\ calls' = Append(calls, PlacesCall(loc, locals.place_type,
                                                         locals.radius, locals.keyword))
                    /\ pc' = "fetching"
                    /\ UNCHANGED ret
    /\ UNCHANGED <<op, args, search>>

\* lines 56-70: the places provider answers; filter, sort, truncate, return
\* (the tool dumps each place to a plain structure, server.py 82-87)
SearchPlaces_Fetched ==
    /\ pc = "fetching"
    /\ \E answer \in PlacesAnswers(op) :
        LET r == fetch_places_from_api(answer)
        IN  IF Raised(r) THEN
                /\ EndWith(ToolCatch(op, r))
                /\ locals' = [locals EXCEPT !.fetch_answer = answer.kind]
            ELSE
                /\ locals' = [locals EXCEPT !.fetched = r.v,
                                            !.fetch_answer = answer.kind]
                /\ EndWith(Return(FilterSortTruncate(r.v, locals.min_rating,
                                                     locals.price_level)))
    /\ UNCHANGED <<op, args, calls, search>>

\* what the details endpoint can answer to one GET
DetailsAnswers ==
    { [kind |-> "ok"], [kind |-> "status_error"], [kind |-> "http_error"],
      [kind |-> "timeout"], [kind |-> "network_error"], [kind |-> "bad_json"] }

\* places.get_place_details, lines 276-286
get_place_details(place_id, answer) ==
    CASE answer.kind = "ok" -> Return([place_id |-> place_id])
      [] answer.kind = "status_error" -> Raise("ValueError")
      [] answer.kind = "http_error" -> Raise("HTTPStatusError")
      [] answer.kind = "timeout" -> Raise("TimeoutException")
      [] answer.kind = "network_error" -> Raise("ConnectError")
      [] answer.kind = "bad_json" -> Raise("JSONDecodeError")

PlaceIds == {"id1", "id2"}

\* the get_place_details tool is called
Tool_GetPlaceDetails_Call ==
    /\ pc = "idle"
    /\ \E id \in PlaceIds :
        /\ args' = [place_id |-> id]
        /\ calls' = <<[api |-> "details", place_id |-> id]>>
    /\ op' = "server.get_place_details"
    /\ locals' = [answer |-> "none"]
    /\ ret' = Pending
    /\ pc' = "details"
    /\ UNCHANGED search

\* the details endpoint answers
Tool_GetPlaceDetails_Answered ==
    /\ pc = "details"
    /\ \E answer \in DetailsAnswers :
        /\ EndWith(ToolCatch(op, get_place_details(args.place_id, answer)))
        /\ locals' = [answer |-> answer.kind]
    /\ UNCHANGED <<op, args, calls, search>>

(***************************************************************************)
(* src/events.py, src/server.py: the events pipeline as a state machine    *)
(***************************************************************************)

MaxSearchCalls == 2   \* calls of search_events made on one request object

\* parse_events_response is applied to a provider body
ParseEventsResponse ==
    /\ pc = "idle"
    /\ \E data \in EventsData :
        /\ args' = [data |-> data]
        /\ ret' = parse_events_response(data)
    /\ op' = "events.parse_events_response"
    /\ calls' = <<>>
    /\ pc' = "done"
    /\ UNCHANGED <<locals, search>>

\* fetch_events_by_date, lines 24-33, and search_events up to its await,
\* lines 40-60
EV_Start(o, a) ==
    LET v == ValidateEventArgs(a)
        r == ExtendEndDate(v.v)
    IN  /\ op' = o
        /\ args' = a
        /\ UNCHANGED search
        /\ IF Raised(v) THEN
               EndWith(v) /\ calls' = <<>> /\ locals' = <<>>
           ELSE IF Raised(r) THEN
               EndWith(r) /\ calls' = <<>> /\ locals' = <<>>
           ELSE
               /\ locals' = [search |-> r.v, answer |-> "none"]
               /\ calls' = <<EventsCall(r.v)>>
               /\ ret' = Pending
               /\ pc' = "events_fetching"

\* events.fetch_events_by_date is called
FetchEventsByDate_Call ==
    /\ pc = "idle"
    /\ \E a \in EventArgs : EV_Start("events.fetch_events_by_date", a)

\* the get_events_by_date tool is called
Tool_GetEventsByDate_Call ==
    /\ pc = "idle"
    /\ \E a \in EventArgs : EV_Start("server.get_events_by_date", a)

\* a caller builds a validated EventSearch request and keeps it
NewEventSearch ==
    /\ pc = "idle"
    /\ \E a \in EventArgs :
        /\ a.city = Loc_Address
        /\ a.keyword = None
        /\ Returned(ValidateEventArgs(a))
        /\ search' = Some(ValidateEventArgs(a).v)
        /\ args' = [search |-> ValidateEventArgs(a).v]
    /\ op' = "events.search_events"
    /\ locals' = [answer |-> "none"]
    /\ ret' = Pending
    /\ calls' = <<>>
    /\ pc' = "holding"

\* search_events is called on the request object the caller holds,
\* lines 40-60
SearchEvents_Call ==
    /\ pc = "holding"
    /\ Len(calls) < MaxSearchCalls
    /\ LET r == ExtendEndDate(search[1])
       IN  IF Raised(r) THEN
               /\ ret' = r
               /\ UNCHANGED <<pc, search, calls>>
           ELSE
               /\ search' = Some(r.v)
               /\ calls' = Append(calls, EventsCall(r.v))
               /\ ret' = Pending
               /\ pc' = "events_fetching"
    /\ UNCHANGED <<op, args, locals>>

\* the events provider answers, lines 60-67; the tool then dumps the events
\* (server.py 33-38)
Events_Fetched ==
    /\ pc = "events_fetching"
    /\ \E answer \in EventsAnswers :
        /\ locals' = [locals EXCEPT !.answer = answer.kind]
        /\ ret' = IF op = "server.get_events_by_date"
                  THEN DumpEvents(SearchEventsResult(answer))
                  ELSE SearchEventsResult(answer)
    /\ pc' = IF op = "events.search_events" THEN "holding" ELSE "done"
    /\ UNCHANGED <<op, args, calls, search>>

\* the caller discards the request object
DropEventSearch ==
    /\ pc = "holding"
    /\ pc' = "idle"
    /\ op' = "none"
    /\ args' = <<>>
    /\ locals' = <<>>
    /\ ret' = Pending
    /\ calls' = <<>>
    /\ search' = None

(***************************************************************************)
(* The program: any function or tool may be called next                    *)
(***************************************************************************)

Next ==
    \/ ValidateLocation
    \/ ValidateKeyword
    \/ ValidateStartEndDates
    \/ ValidatePlaceType
    \/ ParsePlacesResponse
    \/ SearchPlaces_Call
    \/ Tool_SearchPlaces_Call
    \/ SearchPlaces_Geocoded
    \/ SearchPlaces_Fetched
    \/ Tool_GetPlaceDetails_Call
    \/ Tool_GetPlaceDetails_Answered
    \/ ParseEventsResponse
    \/ FetchEventsByDate_Call
    \/ Tool_GetEventsByDate_Call
    \/ NewEventSearch
    \/ SearchEvents_Call
    \/ Events_Fetched
    \/ DropEventSearch
    \/ Finish

Spec == Init /\ [][Next]_vars

(***************************************************************************)
(* Properties                                                              *)
(***************************************************************************)

PlacesOps == {"places.search_places", "server.search_places"}
EventsOps == {"events.fetch_events_by_date", "server.get_events_by_date"}

\* search_places has returned its list of places
PlacesReturned == op \in PlacesOps /\ pc = "done" /\ Returned(ret)

\* the rating a place is ordered by: an absent rating counts as 0
RatingOrZero(p) == IF p.rating = None THEN 0 ELSE p.rating[1]

\* C1: the list search_places returns has at most 20 entries and is ordered
\* by rating, non-increasing, an absent rating counting as 0; for every
\* provider batch and every combination of filters.
C1_SortedAtMost20 ==
    PlacesReturned =>
        /\ Len(ret.v) <= 20
        /\ \A i, j \in 1..Len(ret.v) :
             i < j => RatingOrZero(ret.v[i]) >= RatingOrZero(ret.v[j])

\* more than 20 places were fetched, 20 are returned, rated and unrated ones
\* among them, in another order than the provider's
C1_Witness ==
    /\ PlacesReturned
    /\ Len(locals.fetched) > 20
    /\ Len(ret.v) = 20
    /\ ret.v # SubSeq(locals.fetched, 1, 20)
    /\ \E i, j \in 1..20 : ret.v[i].rating = None /\ ret.v[j].rating # None

\* the min_rating the caller provided, as a number (the tool turns a str
\* into a number first)
ProvidedMinRating ==
    IF op = "server.search_places" THEN CoerceMinRating(args.min_rating).v
    ELSE args.min_rating

\* C2: whenever min_rating is provided (any number, 0 and values below 1.0
\* included), it is clamped into [1.0, 5.0] and every returned place has a
\* rating that is present and at least the clamped value.
C2_MinRatingFilter ==
    (PlacesReturned /\ ProvidedMinRating # None) =>
        LET clamped == Min(Max(ProvidedMinRating[1], 10), 50)
        IN  \A i \in 1..Len(ret.v) :
               /\ ret.v[i].rating # None
               /\ ret.v[i].rating[1] >= clamped

\* the price_level the caller provided, as a number
ProvidedPriceLevel ==
    IF op = "server.search_places" THEN CoercePriceLevel(args.price_level).v
    ELSE args.price_level

\* C3: whenever price_level is provided (any integer, 0 and out-of-range
\* values included), it is clamped into 0..4 and every returned place has
\* exactly the clamped price_level; a place without price_level is never
\* returned.
C3_PriceFilter ==
    (PlacesReturned /\ ProvidedPriceLevel # None) =>
        LET clamped == Min(Max(ProvidedPriceLevel[1], 0), 4)
        IN  \A i \in 1..Len(ret.v) : ret.v[i].price_level = <<clamped>>

\* an out-of-range price_level was given, places with the clamped price are
\* returned, and places of another price or of none were fetched
C3_Witness ==
    /\ PlacesReturned
    /\ ProvidedPriceLevel \in {<<7>>, <<-1>>}
    /\ ret.v # <<>>
    /\ \E i \in 1..Len(locals.fetched) : locals.fetched[i].price_level = None
    /\ \E i \in 1..Len(locals.fetched) : locals.fetched[i].price_level = <<2>>

\* the inputs of the running invocation fail validation
PlaceInputsInvalid ==
    op \in PlacesOps /\ Raised(validate_place_type(args.place_type))

EventInputsInvalid ==
    /\ op \in EventsOps
    /\ \/ Raised(validate_location(args.city))
       \/ IF args.keyword # None
          THEN args.keyword[1] # <<>> /\ Raised(validate_keyword(args.keyword[1]))
          ELSE FALSE
       \/ Raised(validate_start_end_dates(args.start_date, args.end_date, args.now))

\* C4: in an invocation of search_places or fetch_events_by_date whose inputs
\* fail validation, no geocode, places or events request is ever issued, and
\* the invocation ends with the validation error (the places tool with its
\* error shape).
C4_ValidationBeforeNetwork ==
    (PlaceInputsInvalid \/ EventInputsInvalid) =>
        /\ calls = <<>>
        /\ pc = "done"
        /\ IF op = "server.search_places" THEN ReturnedError(ret)
           ELSE ret = Raise("ValueError")

\* an inverted date range with a valid city and keyword: the events function
\* raised and sent nothing
C4_Witness ==
    /\ op = "events.fetch_events_by_date"
    /\ pc = "done"
    /\ Returned(validate_location(args.city))
    /\ args.keyword = None
    /\ args.start_date = Date_Jan1
    /\ args.end_date = Date_Dec31
    /\ ret = Raise("ValueError")
    /\ calls = <<>>

\* parse_events_response was applied to a list of records
ParsedBatch ==
    /\ op = "events.parse_events_response"
    /\ pc = "done"
    /\ args.data.events # None

\* the ids of the records of a list, in order
RECURSIVE GoodIds(_)
GoodIds(records) ==
    IF records = <<>> THEN <<>>
    ELSE IF Returned(parse_single_event(Head(records)))
    THEN <<Head(records).id[1]>> \o GoodIds(Tail(records))
    ELSE GoodIds(Tail(records))

\* C5: parse_events_response never raises because of one bad record (missing
\* id or name, unparsable localDate, venues present but empty, a priceRanges
\* entry without min or max): the bad record yields no Event and every other
\* record of the batch is parsed and returned, in the provider's order.
C5_BadRecordSkipped ==
    ParsedBatch =>
        /\ Returned(ret)
        /\ [i \in 1..Len(ret.v) |-> ret.v[i].id] = GoodIds(args.data.events[1])

\* a field of the record is present and malformed
MalformedField(e) ==
    \/ e.url # None /\ e.url[1] = BadUrl
    \/ /\ e.dates # None
       /\ e.dates[1].start # None
       /\ e.dates[1].start[1].localDate # None
       /\ strptime(e.dates[1].start[1].localDate[1]) = None
    \/ e.embedded # None /\ e.embedded[1].venues = Some(<<>>)
    \/ /\ e.priceRanges # None
       /\ e.priceRanges[1] # <<>>
       /\ (e.priceRanges[1][1].min = None \/ e.priceRanges[1][1].max = None)

\* C6: a record that has name and id is skipped only when a field that is
\* present is malformed; the absence of an optional field (url, localTime,
\* venue name/address/city, segment/genre) never causes the record to be
\* skipped.
C6_AbsentFieldNeverSkips ==
    (ParsedBatch /\ Returned(ret)) =>
        \A i \in 1..Len(args.data.events[1]) :
            LET e == args.data.events[1][i]
            IN  (e.name # None /\ e.id # None /\ ~MalformedField(e)) =>
                    \E k \in 1..Len(ret.v) : ret.v[k].id = e.id[1]

\* the end date of the request object as the caller built it, one day on
CallerEndPlusOne == strftime(AddOneDay(strptime(args.search.end_date)[1])[1])

\* C7: search_events sends the caller's end date plus one calendar day and
\* leaves the end_date field of the request object unchanged, so every call
\* made on the same object sends the same end date.
C7_RequestNotMutated ==
    op = "events.search_events" =>
        /\ search[1].end_date = args.search.end_date
        /\ \A i \in 1..Len(calls) : calls[i].endDateTime = CallerEndPlusOne

\* C8: when the events fetch fails with any exception, the caller receives an
\* empty list: fetch_events_by_date returns an empty sequence and the
\* get_events_by_date tool returns an empty list without raising.
C8_FetchFailureGivesEmptyList ==
    (op \in EventsOps /\ pc = "done" /\ calls # <<>> /\ locals.answer # "ok") =>
        ret = Return(<<>>)

\* a failure happened inside the running places tool
PlacesToolFailed ==
    \/ /\ op = "server.search_places"
       /\ IF calls = <<>> THEN TRUE
          ELSE \/ locals.geo_answer \notin {"none", "ok"}
               \/ locals.fetch_answer # "ok"
    \/ op = "server.get_place_details" /\ locals.answer # "ok"

\* C9: the search_places and get_place_details tools never propagate an
\* exception: on every failure inside them (validation, coercion of a str to
\* a number, geocoding, provider status, HTTP error, timeout) they return
\* exactly {error: "Search places tool failed"}, respectively
\* {error: "Get place details tool failed"}.
C9_ToolsNeverRaise ==
    (op \in {"server.search_places", "server.get_place_details"} /\ pc = "done") =>
        /\ ~Raised(ret)
        /\ PlacesToolFailed =>
             ret = [kind |-> "return_error",
                    v |-> [error |-> IF op = "server.search_places"
                                     THEN "Search places tool failed"
                                     ELSE "Get place details tool failed"]]
        /\ ~PlacesToolFailed => Returned(ret)

\* the places fetch of the tool ended with an HTTP error after a successful
\* geocoding, and the tool returned its error shape
C9_Witness ==
    /\ op = "server.search_places"
    /\ pc = "done"
    /\ Len(calls) = 2
    /\ locals.geo_answer = "ok"
    /\ locals.fetch_answer = "http_error"
    /\ ReturnedError(ret)

\* C10: validate_location returns exactly when the trimmed input has a
\* length in 2..200 and no forbidden character, and then returns the trimmed
\* input; every other input (forbidden character, trimmed form empty, shorter
\* than 2 or longer than 200) fails with a validation error.
C10_ValidateLocation ==
    op = "validate_location" =>
        LET s == args.location
            t == Strip(s)
            valid == /\ Len(t) >= 2
                     /\ Len(t) <= 200
                     /\ \A j \in 1..Len(t) :
                          t[j] \notin {get_invalid_chars[i] :
                                         i \in 1..Len(get_invalid_chars)}
        IN  /\ valid => ret = Return(t)
            /\ ~valid => ret = Raise("ValueError")
            /\ Returned(ret) =>
                 /\ ret.v # <<>>
                 /\ ret.v[1] \notin Whitespace
                 /\ ret.v[Len(ret.v)] \notin Whitespace
                 /\ \E l, r \in 0..Len(s) :
                      /\ l + Len(ret.v) + r = Len(s)
                      /\ SubSeq(s, l + 1, l + Len(ret.v)) = ret.v
                      /\ \A i \in 1..l : s[i] \in Whitespace
                      /\ \A i \in (Len(s) - r + 1)..Len(s) : s[i] \in Whitespace

\* a padded input of trimmed length exactly 200 is accepted and trimmed
C10_Witness ==
    /\ op = "validate_location"
    /\ Len(args.location) > 200
    /\ Returned(ret)
    /\ Len(ret.v) = 200
    /\ ret.v # args.location

\* a calendar date written YYYY-MM-DD: ten characters, four digits of year,
\* two of month, two of day, an existing day; None for anything else
IsoDate(s) ==
    IF Len(s) # 10 THEN None
    ELSE IF s[5] # "-" \/ s[8] # "-" THEN None
    ELSE IF \E i \in {1, 2, 3, 4, 6, 7, 9, 10} : ~IsDigit(s[i]) THEN None
    ELSE LET y == DigitsToInt(SubSeq(s, 1, 4))
             m == DigitsToInt(SubSeq(s, 6, 7))
             d == DigitsToInt(SubSeq(s, 9, 10))
         IN  IF y < 1 \/ m < 1 \/ m > 12 \/ d < 1 THEN None
             ELSE IF d > DaysInMonth(y, m) THEN None
             ELSE Some([y |-> y, m |-> m, d |-> d])

\* C11: validate_start_end_dates returns exactly when both strings are
\* YYYY-MM-DD dates, start is strictly before end, and start at midnight is
\* strictly later than the current moment; when it returns, it returns the
\* two strings it was given.
C11_DateRangeAccepted ==
    (pc = "done" /\ op = "validate_start_end_dates") =>
        LET sd == IsoDate(args.start_date)
            ed == IsoDate(args.end_date)
            ok == /\ sd # None
                  /\ ed # None
                  /\ DateLess(sd[1], ed[1])
                  /\ ~DateTimeLeq(sd[1], 0, args.now.date, args.now.time)
        IN  /\ Returned(ret) <=> ok
            /\ Returned(ret) => ret.v = <<args.start_date, args.end_date>>

\* s is k up to the case of its letters and whitespace around it
NamesType(s, k) ==
    \E l, r \in 0..Len(s) :
        /\ l + Len(k) + r = Len(s)
        /\ \A i \in 1..l : s[i] \in Whitespace
        /\ \A i \in (Len(s) - r + 1)..Len(s) : s[i] \in Whitespace
        /\ \A i \in 1..Len(k) : s[l + i] \in {k[i], UpperChar(k[i])}

\* C12: validate_place_type returns the table's category for every input
\* that is an alias up to case and surrounding whitespace ("hiking" gives
\* "park"), fails for every input that is neither an alias nor a category,
\* and whatever it returns is a category that it maps to itself.
C12_PlaceTypeNormalized ==
    (pc = "done" /\ op = "places.validate_place_type") =>
        LET s == args.place_type
        IN  /\ \A i \in 1..Len(type_mapping) :
                  NamesType(s, type_mapping[i][1])
                      => ret = Return(type_mapping[i][2])
            /\ NamesType(s, Type_Hiking) => ret = Return(Type_Park)
            /\ (\A k \in TypeKeys \cup valid_types : ~NamesType(s, k))
                  => ret = Raise("ValueError")
            /\ Returned(ret) =>
                  /\ ret.v \in valid_types
                  /\ validate_place_type(ret.v) = Return(ret.v)

\* "hiking" in capitals and with whitespace around it came back as "park"
C12_Witness ==
    /\ pc = "done"
    /\ op = "places.validate_place_type"
    /\ args.place_type # Type_Hiking
    /\ NamesType(args.place_type, Type_Hiking)
    /\ Len(args.place_type) > Len(Type_Hiking)
    /\ ret = Return(Type_Park)

\* the locations that are coordinate strings: two numbers separated by a
\* comma, the first in [-90, 90], the second in [-180, 180]
CoordinateStrings == {Loc_Coords, Loc_CoordsSpaced, Loc_Boundary}

\* the providers called so far in this invocation, in order
CalledApis == [i \in 1..Len(calls) |-> calls[i].api]

\* the chains of requests one invocation may have made
OneChain ==
    { <<>>, <<"geocode">>, <<"nearbysearch">>, <<"geocode", "nearbysearch">> }

\* the place type names a type of the table and, at the tool, min_rating and
\* price_level convert to numbers
PlaceArgsValid ==
    /\ \E k \in TypeKeys \cup valid_types : NamesType(args.place_type, k)
    /\ op = "server.search_places" =>
          /\ Returned(CoerceMinRating(args.min_rating))
          /\ Returned(CoercePriceLevel(args.price_level))

\* a geocoding request is outstanding or has been answered, and the answer
\* was a failure: the invocation is over, with an error and no places request
GeocodeFailureEnds ==
    (CalledApis = <<"geocode">> /\ pc # "geocoding") =>
        /\ pc = "done"
        /\ locals.geo_answer \notin {"none", "ok"}
        /\ Raised(ret) \/ ReturnedError(ret)

\* a places request follows a successful geocoding, or none at all when the
\* location is a coordinate string, which is then sent as it is
FetchAfterGeocode ==
    /\ CalledApis = <<"geocode", "nearbysearch">> =>
          /\ locals.geo_answer = "ok"
          /\ calls[1].address = args.location
          /\ is_coordinates(calls[2].location)
    /\ CalledApis = <<"nearbysearch">> => calls[1].location = args.location

\* C13: every search_places invocation makes at most one geocoding
\* request and at most one places request, in that order; the geocoding
\* request is made exactly when the location is not a coordinate string; the
\* places request follows only a successful geocoding (when one was needed),
\* and a failed geocoding ends the invocation with an error.
C13_GeocodeIffNotCoordinates ==
    (op \in PlacesOps /\ pc # "idle") =>
        /\ CalledApis \in OneChain
        /\ ("geocode" \in {CalledApis[i] : i \in 1..Len(calls)})
              <=> args.location \notin CoordinateStrings
        /\ FetchAfterGeocode
        /\ GeocodeFailureEnds

\* C13, for the invocations whose inputs pass validation: the same;
\* an invocation whose inputs fail validation makes no request at all.
C13_OneChainWhenValid ==
    (op \in PlacesOps /\ pc # "idle") =>
        /\ CalledApis \in OneChain
        /\ IF PlaceArgsValid
           THEN ("geocode" \in {CalledApis[i] : i \in 1..Len(calls)})
                   <=> args.location \notin CoordinateStrings
           ELSE calls = <<>>
        /\ FetchAfterGeocode
        /\ GeocodeFailureEnds

\* "LA,CA" has a comma and is no coordinate string: it was geocoded, the
\* places request followed, and the invocation returned
C13_Witness ==
    /\ op = "places.search_places"
    /\ pc = "done"
    /\ args.location = Loc_CityState
    /\ CalledApis = <<"geocode", "nearbysearch">>
    /\ Returned(ret)

\* a record with place_id and name, a rating that is absent or within
\* [0, 5] (in tenths) and a price_level that is absent or within 0..4
SoundRecord(rec) ==
    /\ rec.place_id # None
    /\ rec.name # None
    /\ rec.rating = None \/ (0 <= rec.rating[1] /\ rec.rating[1] <= 50)
    /\ rec.price_level = None \/ (0 <= rec.price_level[1] /\ rec.price_level[1] <= 4)

\* the positions of the sound records of a batch, in order
SoundPositions(records) == SelectSeq([i \in 1..Len(records) |-> i],
                                     LAMBDA i : SoundRecord(records[i]))

====
